---- MODULE Spec2Model ----
(***************************************************************************)
(* Model of the LinkedIn job finder's scrape orchestration:                *)
(*   src/app/actions/scrape-jobs.ts  scrapeLinkedInJobs (cache lookup, URL *)
(*       construction, cache write, fallback), scrapeWithPlaywright (the   *)
(*       browser session raced against a 25 s timer), getMockJobs          *)
(*   src/app/api/jobs/route.ts       GET: the keywords check, the defaults *)
(*       of the parameters, the 50 s timer, the JSON body of the response  *)
(*   src/app/_components/job-results.tsx  the warning shown for a response *)
(* Strings are TLA+ strings; toLowerCase, trim, includes and               *)
(* encodeURIComponent are computed character by character.                 *)
(***************************************************************************)
EXTENDS Integers, Sequences, FiniteSets, TLC

VARIABLES jobCache, now, pc, opts, url, timer, browser, completion,
          scrapePromise, error, result, call, ret, params, outer,
          searchParams, jobResults, fetches

\* the state of the server, and of the JobResults component in the browser
server == <<jobCache, now, pc, opts, url, timer, browser, completion,
            scrapePromise, error, result, call, ret, params, outer>>
component == <<searchParams, jobResults, fetches>>

vars == <<jobCache, now, pc, opts, url, timer, browser, completion,
          scrapePromise, error, result, call, ret, params, outer,
          searchParams, jobResults, fetches>>

(***************************************************************************)
(* Bounds of the model.                                                    *)
(***************************************************************************)
\* number of requests that call scrapeLinkedInJobs, possibly concurrently
NumRequests == 2
\* the clock reads an epoch plus 0..MaxJitter milliseconds
MaxJitter == 1
\* the largest number of <li> listings a result page holds
MaxListings == 26
\* the random source starts at one of 0..MaxSeed
MaxSeed == 0
\* getMockJobs is applied on its own to counts 0..MaxCount (and to 15)
MaxCount == 3

(***************************************************************************)
(* JavaScript values.                                                      *)
(***************************************************************************)
\* the value of an absent optional field, a missing map entry, an element no
\* selector matched
Undefined == "<undefined>"
\* null: a search parameter the URL does not have, a state that was reset
Null == "<null>"

Min(a, b) == IF a < b THEN a ELSE b

\* String.prototype.toLowerCase, one character
LowerOf ==
    [A |-> "a", B |-> "b", C |-> "c", D |-> "d", E |-> "e", F |-> "f",
     G |-> "g", H |-> "h", I |-> "i", J |-> "j", K |-> "k", L |-> "l",
     M |-> "m", N |-> "n", O |-> "o", P |-> "p", Q |-> "q", R |-> "r",
     S |-> "s", T |-> "t", U |-> "u", V |-> "v", W |-> "w", X |-> "x",
     Y |-> "y", Z |-> "z"]
LowerChar(c) == IF c \in DOMAIN LowerOf THEN LowerOf[c] ELSE c

RECURSIVE ToLowerCase(_)
ToLowerCase(s) ==
    IF Len(s) = 0 THEN ""
    ELSE LowerChar(SubSeq(s, 1, 1)) \o ToLowerCase(SubSeq(s, 2, Len(s)))

\* String.prototype.includes
Includes(s, sub) ==
    \E i \in 1..(Len(s) - Len(sub) + 1) : SubSeq(s, i, i + Len(sub) - 1) = sub

IsSpace(c) == c \in {" ", "\n", "\t"}

RECURSIVE TrimStart(_)
TrimStart(s) ==
    IF Len(s) > 0 /\ IsSpace(SubSeq(s, 1, 1))
    THEN TrimStart(SubSeq(s, 2, Len(s)))
    ELSE s

RECURSIVE TrimEnd(_)
TrimEnd(s) ==
    IF Len(s) > 0 /\ IsSpace(SubSeq(s, Len(s), Len(s)))
    THEN TrimEnd(SubSeq(s, 1, Len(s) - 1))
    ELSE s

\* String.prototype.trim
Trim(s) == TrimEnd(TrimStart(s))

\* encodeURIComponent, one character: letters, digits and - _ . ! ~ * ' ( )
\* are kept, the other characters of the modelled inputs are percent-encoded
EncodeChar(c) ==
    CASE c = " " -> "%20"
      [] c = "," -> "%2C"
      [] c = "&" -> "%26"
      [] c = "=" -> "%3D"
      [] c = "/" -> "%2F"
      [] OTHER   -> c

RECURSIVE EncodeURIComponent(_)
EncodeURIComponent(s) ==
    IF Len(s) = 0 THEN ""
    ELSE EncodeChar(SubSeq(s, 1, 1)) \o EncodeURIComponent(SubSeq(s, 2, Len(s)))

\* a JavaScript array is a TLA+ sequence; arr[i] with a 0-based index, which
\* is undefined when the index is NaN (i % 0) or out of range
At(arr, i) == arr[i + 1]

\* Array.prototype.join
RECURSIVE Join(_, _)
Join(arr, sep) ==
    IF Len(arr) = 0 THEN ""
    ELSE IF Len(arr) = 1 THEN arr[1]
    ELSE arr[1] \o sep \o Join(Tail(arr), sep)

(***************************************************************************)
(* Math.random(): the random source is a seed and a stride, its k-th draw  *)
(* (k = 0, 1, ...) one of RandomRange equally spaced values of [0, 1).     *)
(***************************************************************************)
RandomRange == 32
RandomSources == [seed : 0..MaxSeed, stride : {0, 1}]
Draw(rs, k) == (rs.seed + rs.stride * k) % RandomRange
\* Math.floor(Math.random() * n) for the k-th draw
RandomIndex(rs, k, n) == (Draw(rs, k) * n) \div RandomRange

(***************************************************************************)
(* getMockJobs (scrape-jobs.ts:229-354).                                   *)
(***************************************************************************)
jobTypes == <<"Full-time", "Part-time", "Contract", "Remote", "Internship">>
datePostedOptions ==
    <<"1 day ago", "2 days ago", "3 days ago", "1 week ago", "Just now">>
companies ==
    <<"Tech Solutions Inc.", "Global Innovations", "Digital Enterprises",
      "Future Systems", "Smart Technologies", "Nexus Corporation",
      "Quantum Computing", "Cyber Security Ltd", "Cloud Platforms Inc",
      "Data Analytics Co">>
locations(location) ==
    IF location # ""
    THEN <<location, location, location, "Remote", location>>
    ELSE <<"Remote", "New York, NY", "San Francisco, CA", "Austin, TX",
           "Seattle, WA", "Boston, MA", "Chicago, IL", "Los Angeles, CA",
           "Denver, CO", "Atlanta, GA">>
salaries ==
    <<"$80,000 - $100,000 a year", "$120,000 - $150,000 a year",
      "$60,000 - $80,000 a year", "$100,000 - $130,000 a year",
      "$90,000 - $110,000 a year">>
skills ==
    << <<"JavaScript", "React", "Node.js", "TypeScript">>,
       <<"Python", "Django", "Flask", "AWS">>,
       <<"Java", "Spring", "Hibernate", "Microservices">>,
       <<"C#", ".NET", "Azure", "SQL Server">>,
       <<"Go", "Docker", "Kubernetes", "CI/CD">>,
       <<"PHP", "Laravel", "MySQL", "Redis">>,
       <<"Ruby", "Rails", "PostgreSQL", "Heroku">>,
       <<"Swift", "iOS", "Objective-C", "Mobile Development">>,
       <<"Kotlin", "Android", "Firebase", "Mobile Development">>,
       <<"Rust", "WebAssembly", "Systems Programming", "Performance">> >>
roles ==
    <<"Specialist", "Engineer", "Developer", "Manager", "Analyst",
      "Consultant", "Architect", "Designer", "Lead", "Director", "Programmer",
      "Administrator", "Technician", "Coordinator", "Strategist">>
prefixes == <<"Senior", "Junior", "Principal", "Associate", "">>

\* the title of the index-th mock job; the prefix is the job's random draw
generateJobTitle(keyword, index, rs) ==
    LET prefix == At(prefixes, RandomIndex(rs, index, Len(prefixes)))
        role   == At(roles, index % Len(roles))
    IN  IF prefix # "" THEN prefix \o " " \o keyword \o " " \o role
        ELSE keyword \o " " \o role

\* jobTypes.filter((type) => type.toLowerCase().includes(jobType.toLowerCase()))
filteredJobTypes(jobType) ==
    IF jobType # "all"
    THEN LET keep(type) == Includes(ToLowerCase(type), ToLowerCase(jobType))
         IN  SelectSeq(jobTypes, keep)
    ELSE jobTypes

dateFilter(datePosted) ==
    IF datePosted = "past24hours" THEN <<"Just now", "1 day ago">>
    ELSE IF datePosted = "pastWeek"
    THEN <<"Just now", "1 day ago", "2 days ago", "3 days ago">>
    ELSE datePostedOptions

\* the i-th element (i = 0, 1, ...) built by the Array.from callback, at clock
\* reading t, from the filtered job types and dates. types[i % 0] is
\* types[NaN], undefined.
MockJob(keywords, location, types, dates, i, rs, t) ==
    LET skillSet  == At(skills, i % Len(skills))
        company   == At(companies, i % Len(companies))
        title     == generateJobTitle(keywords, i, rs)
        loc       == At(locations(location), i % Len(locations(location)))
        type      == IF Len(types) = 0 THEN Undefined
                     ELSE At(types, i % Len(types))
        posted    == At(dates, i % Len(dates))
        hasSalary == i % 3 = 0
        salary    == IF hasSalary THEN At(salaries, i % Len(salaries))
                     ELSE Undefined
        description ==
            company \o " is seeking a " \o title \o " to join our team. \n"
            \o "      This is a " \o ToLowerCase(type) \o " position "
            \o (IF loc = "Remote" THEN "that can be performed remotely"
                ELSE "located in " \o loc)
            \o ".\n      \n      The ideal candidate will have experience with "
            \o Join(skillSet, ", ") \o ".\n      \n      "
            \o (IF hasSalary
                THEN "This position offers a competitive salary range of "
                     \o salary \o "."
                ELSE "")
            \o "\n      \n      Apply now to join our innovative team!"
    IN  [id          |-> "mock-" \o ToString(i) \o "-" \o ToString(t),
         title       |-> title,
         company     |-> company,
         location    |-> loc,
         jobType     |-> type,
         datePosted  |-> posted,
         description |-> description,
         url         |-> "https://linkedin.com/jobs",
         logoUrl     |-> "/placeholder.svg?height=40&width=40&text="
                         \o SubSeq(company, 1, 1),
         salary      |-> salary,
         skills      |-> skillSet]

\* the completion of a call: the value it returns or the error it throws
Return(v) == [kind |-> "return", value |-> v]
Throw(e) == [kind |-> "throw", reason |-> e]

\* getMockJobs(keywords, location, jobType, datePosted, count), its draws from
\* rs, the clock reading t: it returns the array of count jobs, or throws the
\* TypeError of jobType.toLowerCase() on an undefined jobType, from the
\* callback of the first element
getMockJobs(keywords, location, jobType, datePosted, count, rs, t) ==
    LET types == filteredJobTypes(jobType)
        dates == dateFilter(datePosted)
    IN  IF count > 0 /\ Len(types) = 0
        THEN Throw("TypeError: Cannot read properties of undefined (reading 'toLowerCase')")
        ELSE Return([k \in 1..count |->
                       MockJob(keywords, location, types, dates, k - 1, rs, t)])

(***************************************************************************)
(* The result page and page.evaluate (scrape-jobs.ts:162-215).             *)
(* A listing is what the seven querySelector calls find in one <li>: the   *)
(* element's textContent (href, src for link and logo), or Undefined when  *)
(* no element matches.                                                     *)
(***************************************************************************)
Listings ==
    << [title    |-> "  Senior Engineer ",  company |-> "Acme Corp",
        location |-> "Berlin, Germany",
        link     |-> "https://www.linkedin.com/jobs/view/1",
        logo     |-> "https://media.licdn.com/logo.png",
        date     |-> "2 days ago",          salary  |-> "$100,000"],
       [title    |-> Undefined,             company |-> Undefined,
        location |-> Undefined,             link    |-> Undefined,
        logo     |-> Undefined,             date    |-> Undefined,
        salary   |-> Undefined],
       [title    |-> "Remote Contract Intern (Part Time)",
        company  |-> "  ",                  location |-> "",
        link     |-> "",                    logo     |-> "",
        date     |-> " ",                   salary   |-> ""],
       [title    |-> "REMOTE Internship",   company |-> "Globex",
        location |-> Undefined,
        link     |-> "https://www.linkedin.com/jobs/view/4",
        logo     |-> Undefined,             date    |-> "1 week ago",
        salary   |-> Undefined],
       [title    |-> "Remote Contract Role", company |-> "Initech",
        location |-> Undefined,
        link     |-> "https://www.linkedin.com/jobs/view/5",
        logo     |-> Undefined,             date    |-> "3 days ago",
        salary   |-> Undefined],
       [title    |-> "Contract Intern",     company |-> "Umbrella",
        location |-> "Remote",
        link     |-> "https://www.linkedin.com/jobs/view/6",
        logo     |-> Undefined,             date    |-> "Just now",
        salary   |-> Undefined],
       [title    |-> "Remote Engineer",     company |-> "Hooli",
        location |-> Undefined,
        link     |-> "https://www.linkedin.com/jobs/view/7",
        logo     |-> Undefined,             date    |-> Undefined,
        salary   |-> Undefined] >>

\* the pages the site may serve: count listings, the i-th one being the
\* (first + i)-th of Listings, cyclically
Pages == [count : {0, MaxListings}, first : {0}]
ListingsOf(page) ==
    [i \in 1..page.count |-> At(Listings, (page.first + i - 1) % Len(Listings))]

\* elem?.textContent?.trim() ?? fallback: an empty text is kept
TextOrNullish(text, fallback) ==
    IF text = Undefined THEN fallback ELSE Trim(text)
\* elem?.textContent?.trim() || fallback
TextOr(text, fallback) ==
    IF text = Undefined \/ Trim(text) = "" THEN fallback ELSE Trim(text)
\* elem?.href || fallback, elem?.src || undefined
ValueOr(value, fallback) ==
    IF value = Undefined \/ value = "" THEN fallback ELSE value

\* an inference that tests "remote" first
InferJobTypeRemoteFirst(title) ==
    LET lower == ToLowerCase(title)
    IN  IF Includes(lower, "remote") THEN "Remote"
        ELSE IF Includes(lower, "part-time") \/ Includes(lower, "part time")
        THEN "Part-time"
        ELSE IF Includes(lower, "contract") THEN "Contract"
        ELSE IF Includes(lower, "intern") THEN "Internship"
        ELSE "Full-time"
\* the job type read off the title
InferJobType(title) ==
    LET lower == ToLowerCase(title)
    IN  IF Includes(lower, "part-time") \/ Includes(lower, "part time")
        THEN "Part-time"
        ELSE IF Includes(lower, "contract") THEN "Contract"
        ELSE IF Includes(lower, "intern") THEN "Internship"
        ELSE IF Includes(lower, "remote") THEN "Remote"
        ELSE "Full-time"

skillSets ==
    << <<"JavaScript", "React", "Node.js", "TypeScript">>,
       <<"Python", "Django", "Flask", "AWS">>,
       <<"Java", "Spring", "Hibernate", "Microservices">>,
       <<"C#", ".NET", "Azure", "SQL Server">>,
       <<"Go", "Docker", "Kubernetes", "CI/CD">> >>

\* the callback of jobListings.slice(0, 15).map for the i-th listing
\* (i = 0, 1, ...): two draws of Math.random, the skill set first, the id second
ExtractJob(job, i, rs) ==
    LET title       == TextOr(job.title, "")
        jobType     == InferJobType(title)
        randomIndex == RandomIndex(rs, 2 * i, Len(skillSets))
    IN  [id          |-> ToString(Draw(rs, 2 * i + 1)),
         title       |-> TextOr(job.title, "Unknown Position"),
         company     |-> TextOr(job.company, "Unknown Company"),
         location    |-> TextOr(job.location, "Unknown Location"),
         jobType     |-> jobType,
         datePosted  |-> TextOr(job.date, "Recently posted"),
         description |-> "This position requires expertise in various technologies. Click to view the full job description.",
         url         |-> ValueOr(job.link, "#"),
         logoUrl     |-> ValueOr(job.logo, Undefined),
         salary      |-> TextOr(job.salary, Undefined),
         skills      |-> At(skillSets, randomIndex)]

\* the number of listings kept: jobListings.slice(0, 15)
MaxExtracted == 15
\* a slice that keeps every listing
SliceAll(arr, n) == arr
Slice(arr, n) == SubSeq(arr, 1, Min(n, Len(arr)))

\* page.evaluate(...): the jobs extracted from the page
Evaluate(page, rs) ==
    LET kept == Slice(ListingsOf(page), MaxExtracted)
    IN  [i \in 1..Len(kept) |-> ExtractJob(kept[i], i - 1, rs)]

\* Evaluate, tabulated over the pages and random sources of the model
\* (f @@ <<>> is f, built once as an explicit table)
Evaluated ==
    [page \in Pages, rs \in RandomSources |-> Evaluate(page, rs)] @@ <<>>

(***************************************************************************)
(* scrapeLinkedInJobs (scrape-jobs.ts:5-93).                               *)
(***************************************************************************)
CACHE_TIME == 30 * 60 * 1000
\* the delay of the timer scrapeWithPlaywright races the session against
SCRAPE_TIMEOUT == 25000
\* the number of mock jobs asked of getMockJobs by the catch block
MOCK_COUNT == 15
\* the totalCount returned with mock jobs
MOCK_TOTAL == 125

Requests == 1..NumRequests

\* the options the endpoint passes: the base query and the queries that
\* differ from it in one field
BaseOptions ==
    [keywords |-> "engineer", location |-> "", jobType |-> "all",
     datePosted |-> "anytime", page |-> 1]
JobTypeFilters ==
    {"all", "fulltime", "parttime", "contract", "temporary", "internship",
     "remote"}
DatePostedFilters == {"anytime", "past24hours", "pastWeek", "pastMonth"}
OptionsSet ==
    {BaseOptions}
    \cup {[BaseOptions EXCEPT !.jobType = "fulltime"]}
    \cup {[BaseOptions EXCEPT !.page = 2]}

\* a key of the four query fields, without the page
cacheKeyFourFields(o) ==
    o.keywords \o "-" \o o.location \o "-" \o o.jobType \o "-"
    \o o.datePosted
\* `${keywords}-${location}-${jobType}-${datePosted}-${page}`
cacheKey(o) ==
    o.keywords \o "-" \o o.location \o "-" \o o.jobType \o "-"
    \o o.datePosted \o "-" \o ToString(o.page)

\* a Record<string, string> literal: obj[k], undefined for a missing key
Lookup(obj, k) == IF k \in DOMAIN obj THEN obj[k] ELSE Undefined

jobTypeMap ==
    [fulltime |-> "F", parttime |-> "P", contract |-> "C", temporary |-> "T",
     internship |-> "I", remote |-> "R"]
datePostedMap ==
    [past24hours |-> "r86400", pastWeek |-> "r604800", pastMonth |-> "r2592000"]

searchUrl(o) ==
    "https://www.linkedin.com/jobs/search/?keywords="
    \o EncodeURIComponent(o.keywords)
    \o (IF o.location # "" THEN "&location=" \o EncodeURIComponent(o.location)
        ELSE "")
    \o (IF o.jobType # "all" /\ Lookup(jobTypeMap, o.jobType) # Undefined
        THEN "&f_JT=" \o Lookup(jobTypeMap, o.jobType) ELSE "")
    \o (IF o.datePosted # "anytime"
           /\ Lookup(datePostedMap, o.datePosted) # Undefined
        THEN "&f_TPR=" \o Lookup(datePostedMap, o.datePosted) ELSE "")
    \o (IF o.page > 1 THEN "&start=" \o ToString((o.page - 1) * 25) ELSE "")

\* jobCache.get(cacheKey) is defined
Has(cache, key) == key \in DOMAIN cache
\* cachedResult && Date.now() - cachedResult.timestamp < CACHE_TIME
\* a lookup that never compares the entry's age
IsFreshAlways(cachedResult, t) == TRUE
\* a test that takes an entry of exactly the TTL's age as fresh
IsFreshInclusive(cachedResult, t) == t - cachedResult.timestamp <= CACHE_TIME
IsFresh(cachedResult, t) == t - cachedResult.timestamp < CACHE_TIME
CacheHit(cache, key, t) == Has(cache, key) /\ IsFresh(cache[key], t)

\* a write that is lost: the cache stays as it was
CacheSetDropped(cache, key, jobs, t) == cache
\* a write that skips an empty job list
CacheSetNonEmpty(cache, key, jobs, t) ==
    IF Len(jobs) = 0 THEN cache
    ELSE [k \in DOMAIN cache \cup {key} |->
            IF k = key THEN [jobs |-> jobs, timestamp |-> t] ELSE cache[k]]
\* a write that appends to the jobs the key already holds
CacheSetMerging(cache, key, jobs, t) ==
    [k \in DOMAIN cache \cup {key} |->
        IF k # key THEN cache[k]
        ELSE [jobs |-> IF Has(cache, key) THEN cache[key].jobs \o jobs
                       ELSE jobs,
              timestamp |-> t]]
\* jobCache.set(cacheKey, { jobs, timestamp: Date.now() })
CacheSet(cache, key, jobs, t) ==
    [k \in DOMAIN cache \cup {key} |->
        IF k = key THEN [jobs |-> jobs, timestamp |-> t] ELSE cache[k]]

\* a totalCount that is the number of jobs
TotalCountExact(jobs) == Len(jobs)
\* the totalCount returned with cached and with scraped jobs
TotalCount(jobs) == Len(jobs) * 3

\* a cache hit returned as if it were fresh
HitResultUnmarked(cachedResult) ==
    [jobs |-> cachedResult.jobs, totalCount |-> Len(cachedResult.jobs) * 3,
     isFromCache |-> FALSE]
\* the three return statements of scrapeLinkedInJobs
HitResult(cachedResult) ==
    [jobs |-> cachedResult.jobs, totalCount |-> TotalCount(cachedResult.jobs),
     isFromCache |-> TRUE]
ScrapedResult(jobs) ==
    [jobs |-> jobs, totalCount |-> TotalCount(jobs), isFromCache |-> FALSE]
MockResult(mockJobs) ==
    [jobs |-> mockJobs, totalCount |-> MOCK_TOTAL, isFromCache |-> FALSE]

(***************************************************************************)
(* Promises, and the completion of a block or call.                        *)
(***************************************************************************)
NotStarted == [kind |-> "none"]
Pending == [kind |-> "pending"]
Fulfilled(v) == [kind |-> "fulfilled", value |-> v]
Rejected(e) == [kind |-> "rejected", reason |-> e]
IsSettled(promise) == promise.kind \in {"fulfilled", "rejected"}

(***************************************************************************)
(* State.                                                                  *)
(*   jobCache       the Map of cache entries, a function on the keys set   *)
(*   now            Date.now(), in milliseconds                            *)
(*   pc[p]          "idle" before request p calls scrapeLinkedInJobs,      *)
(*                  "racing" while it awaits scrapeWithPlaywright,         *)
(*                  "resolved" or "rejected" once its promise has settled  *)
(*   opts[p]        the ScrapeOptions of the call                          *)
(*   url[p]         the search URL handed to scrapeWithPlaywright          *)
(*   timer[p]       the clock reading at which the 25 s timer of the race  *)
(*                  fires, 0 when the race has not begun or has settled    *)
(*   browser[p]     the Chromium of the call: "none", "launching", "open", *)
(*                  "waited" (open, the wait for the result list timed     *)
(*                  out), "closing" (the finally block runs), "closed",    *)
(*                  "failed"                                               *)
(*   completion[p]  how the try block of the session function completed,   *)
(*                  while its finally block runs                           *)
(*   scrapePromise[p]  the promise of the async session function           *)
(*   error[p]       the error the catch block of scrapeLinkedInJobs caught *)
(*   result[p]      the settlement of the scrapeLinkedInJobs promise       *)
(*   call, ret      a direct application of a function and its completion  *)
(*   params[p]      the search parameters of request p's GET                *)
(*   outer[p]       the 50 s timer of the GET handler of request p          *)
(*   searchParams   what useSearchParams() returns in JobResults: the      *)
(*                  keywords, location, jobType and datePosted of the URL   *)
(*   jobResults     the useState values of JobResults: jobs, isLoading,    *)
(*                  error, warning, totalCount, currentPage, isFromCache    *)
(*   fetches        the fetch calls of the page in the order they were     *)
(*                  made: the URL and the settlement of each                *)
(***************************************************************************)
NoCall == [fn |-> "none"]
\* the options and the query of a request that has not arrived
NoOptions == [kind |-> "none"]
NoQuery == [kind |-> "none"]
\* a timer: not set, set to fire at a clock reading, or fired; won tells
\* whether its rejection settled the race it was in
NoTimer == [kind |-> "none"]
Armed(t) == [kind |-> "armed", at |-> t]
Fired(won) == [kind |-> "fired", won |-> won]

\* the useState initial values of JobResults (job-results.tsx:29-35)
UseState ==
    [jobs |-> <<>>, isLoading |-> FALSE, error |-> Null, warning |-> Null,
     totalCount |-> 0, currentPage |-> 1, isFromCache |-> FALSE]
\* the search parameters of a URL without a query string
NoSearch ==
    [keywords |-> Null, location |-> Null, jobType |-> Null,
     datePosted |-> Null]
\* the page is open at "/" and has made no search
NoSearchYet ==
    searchParams = NoSearch /\ jobResults = UseState /\ fetches = <<>>

Init ==
    /\ NoSearchYet
    /\ jobCache = [k \in {} |-> Undefined]
    /\ now = 0
    /\ pc = [p \in Requests |-> "idle"]
    /\ opts = [p \in Requests |-> NoOptions]
    /\ url = [p \in Requests |-> Undefined]
    /\ timer = [p \in Requests |-> 0]
    /\ browser = [p \in Requests |-> "none"]
    /\ completion = [p \in Requests |-> Pending]
    /\ scrapePromise = [p \in Requests |-> NotStarted]
    /\ error = [p \in Requests |-> Undefined]
    /\ result = [p \in Requests |-> NotStarted]
    /\ call = NoCall
    /\ ret = Pending
    /\ params = [p \in Requests |-> NoQuery]
    /\ outer = [p \in Requests |-> NoTimer]

\* scrapeLinkedInJobs(o) up to its first await: a cache hit returns, a miss
\* builds the URL and calls scrapeWithPlaywright, which sets the timer and
\* starts the session function up to its first await (chromium.launch).
\* Requests are numbered in the order they arrive.
scrapeLinkedInJobs(p, o) ==
    /\ pc[p] = "idle"
    /\ \A q \in Requests : q < p => pc[q] # "idle"
    /\ opts' = [opts EXCEPT ![p] = o]
    /\ IF CacheHit(jobCache, cacheKey(o), now)
       THEN /\ pc' = [pc EXCEPT ![p] = "resolved"]
            /\ result' = [result EXCEPT
                            ![p] = Fulfilled(HitResult(jobCache[cacheKey(o)]))]
            /\ UNCHANGED <<url, timer, browser, scrapePromise>>
       ELSE /\ pc' = [pc EXCEPT ![p] = "racing"]
            /\ url' = [url EXCEPT ![p] = searchUrl(o)]
            /\ timer' = [timer EXCEPT ![p] = now + SCRAPE_TIMEOUT]
            /\ browser' = [browser EXCEPT ![p] = "launching"]
            /\ scrapePromise' = [scrapePromise EXCEPT ![p] = Pending]
            /\ UNCHANGED result
    /\ UNCHANGED <<jobCache, now, completion, error, call, ret, component>>

\* a call that, on a miss, finds a call of its key racing and awaits that
\* call's session instead of starting its own
StartSingleFlight(p, o) ==
    IF /\ ~CacheHit(jobCache, cacheKey(o), now)
       /\ \E q \in Requests : pc[q] = "racing" /\ cacheKey(opts[q]) = cacheKey(o)
    THEN /\ pc[p] = "idle"
         /\ \A q \in Requests : q < p => pc[q] # "idle"
         /\ opts' = [opts EXCEPT ![p] = o]
         /\ pc' = [pc EXCEPT ![p] = "racing"]
         /\ timer' = [timer EXCEPT ![p] = now + SCRAPE_TIMEOUT]
         /\ UNCHANGED <<jobCache, now, url, browser, completion,
                        scrapePromise, error, result, call, ret, params,
                        outer, component>>
    ELSE scrapeLinkedInJobs(p, o) /\ UNCHANGED <<params, outer>>

\* a call of scrapeLinkedInJobs that no GET handler made
Start(p, o) == scrapeLinkedInJobs(p, o) /\ UNCHANGED <<params, outer>>

\* the clock readings of the model: an epoch, or the firing of a timer set
\* at one
Epochs == {0, CACHE_TIME}
Instants == {e + j : e \in Epochs, j \in 0..MaxJitter}
Clock ==
    {i + k * SCRAPE_TIMEOUT : i \in Instants, k \in 0..(2 * NumRequests)}

\* the catch block's getMockJobs(keywords, location, jobType, datePosted, 15),
\* tabulated over the options, random sources and clock readings of the model
MockJobsOf ==
    [o \in OptionsSet, rs \in RandomSources, t \in Clock |->
        getMockJobs(o.keywords, o.location, o.jobType, o.datePosted,
                    MOCK_COUNT, rs, t)] @@ <<>>
MockJobsAt(o, rs, t) ==
    IF o \in OptionsSet /\ t \in Clock THEN MockJobsOf[o, rs, t]
    ELSE getMockJobs(o.keywords, o.location, o.jobType, o.datePosted,
                     MOCK_COUNT, rs, t)

\* the rest of scrapeLinkedInJobs once Promise.race has settled with outcome:
\* the try block's cache write and return, or the catch block's getMockJobs
\* (drawing from rs), cache write and return
AfterRace(p, outcome, rs) ==
    LET o    == opts[p]
        mock == MockJobsAt(o, rs, now)
    IN  /\ timer' = [timer EXCEPT ![p] = 0]
        /\ error' = [error EXCEPT ![p] = IF outcome.kind = "rejected"
                                         THEN outcome.reason ELSE Undefined]
        /\ IF outcome.kind = "fulfilled"
           THEN /\ jobCache' = CacheSet(jobCache, cacheKey(o), outcome.value, now)
                /\ result' = [result EXCEPT
                                ![p] = Fulfilled(ScrapedResult(outcome.value))]
                /\ pc' = [pc EXCEPT ![p] = "resolved"]
           ELSE IF mock.kind = "throw"
           THEN /\ result' = [result EXCEPT ![p] = Rejected(mock.reason)]
                /\ pc' = [pc EXCEPT ![p] = "rejected"]
                /\ UNCHANGED jobCache
           ELSE /\ jobCache' = CacheSet(jobCache, cacheKey(o), mock.value, now)
                /\ result' = [result EXCEPT
                                ![p] = Fulfilled(MockResult(mock.value))]
                /\ pc' = [pc EXCEPT ![p] = "resolved"]

\* a settling whose jobs reach the cache even after the race is over
SettleScrapeLateWrite(p, outcome, rs) ==
    /\ scrapePromise' = [scrapePromise EXCEPT ![p] = outcome]
    /\ IF pc[p] = "racing"
       THEN AfterRace(p, outcome, rs)
       ELSE /\ jobCache' = IF outcome.kind = "fulfilled"
                           THEN CacheSet(jobCache, cacheKey(opts[p]),
                                         outcome.value, now)
                           ELSE jobCache
            /\ UNCHANGED <<error, timer, result, pc>>

\* scrapePromise settles with outcome; it settles the race when the timer has
\* not
SettleScrape(p, outcome, rs) ==
    /\ scrapePromise' = [scrapePromise EXCEPT ![p] = outcome]
    /\ IF pc[p] = "racing"
       THEN AfterRace(p, outcome, rs)
       ELSE UNCHANGED <<error, timer, result, pc, jobCache>>

\* chromium.launch resolves
LaunchDone(p) ==
    /\ browser[p] = "launching"
    /\ browser' = [browser EXCEPT ![p] = "open"]
    /\ UNCHANGED <<jobCache, now, pc, opts, url, timer, completion,
                   scrapePromise, error, result, call, ret, params, outer, component>>

\* chromium.launch rejects: the session function throws outside its try
LaunchFailed(p, rs) ==
    /\ browser[p] = "launching"
    /\ browser' = [browser EXCEPT ![p] = "failed"]
    /\ SettleScrape(p, Rejected("browserType.launch: Failed to launch"), rs)
    /\ UNCHANGED <<now, opts, url, completion, call, ret, params, outer, component>>

\* waitForSelector(".jobs-search__results-list", {timeout: 10000}) rejects and
\* its .catch logs "Timeout waiting for job listings, continuing anyway": the
\* try block goes on
SelectorTimedOut(p) ==
    /\ browser[p] = "open"
    /\ browser' = [browser EXCEPT ![p] = "waited"]
    /\ UNCHANGED <<jobCache, now, pc, opts, url, timer, completion,
                   scrapePromise, error, result, call, ret, params, outer, component>>

\* the try block runs to its return: newContext, setExtraHTTPHeaders, newPage,
\* goto, waitForSelector (resolved, or timed out), waitForTimeout and evaluate
PageEvaluated(p, page, rs) ==
    /\ browser[p] \in {"open", "waited"}
    /\ browser' = [browser EXCEPT ![p] = "closing"]
    /\ completion' = [completion EXCEPT ![p] = Return(Evaluated[page, rs])]
    /\ UNCHANGED <<jobCache, now, pc, opts, url, timer, scrapePromise,
                   error, result, call, ret, params, outer, component>>

\* the errors an await of the try block throws
PageErrors == {"page.goto: net::ERR_NAME_NOT_RESOLVED"}

PageFailed(p, err) ==
    /\ browser[p] \in {"open", "waited"}
    /\ browser' = [browser EXCEPT ![p] = "closing"]
    /\ completion' = [completion EXCEPT ![p] = Throw(err)]
    /\ UNCHANGED <<jobCache, now, pc, opts, url, timer, scrapePromise,
                   error, result, call, ret, params, outer, component>>

\* a finally block that runs only while the race is unsettled: the session
\* is abandoned once the timer has won
BrowserClosedIfRacing(p, rs) ==
    /\ pc[p] = "racing"
    /\ browser[p] = "closing"
    /\ browser' = [browser EXCEPT ![p] = "closed"]
    /\ SettleScrape(p, IF completion[p].kind = "return"
                       THEN Fulfilled(completion[p].value)
                       ELSE Rejected(completion[p].reason), rs)
    /\ completion' = [completion EXCEPT ![p] = Pending]
    /\ UNCHANGED <<now, opts, url, call, ret, params, outer, component>>

\* the finally block's browser.close() resolves, and scrapePromise settles
\* as the try block completed
BrowserClosed(p, rs) ==
    /\ browser[p] = "closing"
    /\ browser' = [browser EXCEPT ![p] = "closed"]
    /\ SettleScrape(p, IF completion[p].kind = "return"
                       THEN Fulfilled(completion[p].value)
                       ELSE Rejected(completion[p].reason), rs)
    /\ completion' = [completion EXCEPT ![p] = Pending]
    /\ UNCHANGED <<now, opts, url, call, ret, params, outer, component>>

\* the timer of scrapeWithPlaywright fires before scrapePromise has settled
Timeout(p, rs) ==
    /\ pc[p] = "racing"
    /\ now >= timer[p]
    /\ AfterRace(p, Rejected("Scraping timeout"), rs)
    /\ UNCHANGED <<now, opts, url, browser, completion,
                   scrapePromise, call, ret, params, outer, component>>

\* the instants the pending timers fire
Deadlines == {timer[p] : p \in {q \in Requests : pc[q] = "racing"}}

\* the instants the pending 50 s timers of the GET handlers fire
OuterDeadlines ==
    {outer[p].at : p \in {q \in Requests : outer[q].kind = "armed"}}

\* time passes, to no later than the firing of a pending timer; the clock is
\* read by a request that has yet to arrive or to settle, or by a timer
Tick(t) ==
    /\ t > now
    /\ \E p \in Requests :
          pc[p] \in {"idle", "racing"} \/ outer[p].kind = "armed"
    /\ \A d \in Deadlines \cup OuterDeadlines : t <= d
    /\ now' = t
    /\ UNCHANGED <<jobCache, pc, opts, url, timer, browser, completion,
                   scrapePromise, error, result, call, ret, params, outer, component>>

Next ==
    \/ \E p \in Requests, o \in OptionsSet : Start(p, o)
    \/ \E p \in Requests : LaunchDone(p)
    \/ \E p \in Requests, rs \in RandomSources : LaunchFailed(p, rs)
    \/ \E p \in Requests, page \in Pages, rs \in RandomSources :
          PageEvaluated(p, page, rs)
    \/ \E p \in Requests : SelectorTimedOut(p)
    \/ \E p \in Requests, err \in PageErrors : PageFailed(p, err)
    \/ \E p \in Requests, rs \in RandomSources : BrowserClosed(p, rs)
    \/ \E p \in Requests, rs \in RandomSources : Timeout(p, rs)
    \/ \E t \in Instants \cup Deadlines : Tick(t)

Spec == Init /\ [][Next]_vars

(***************************************************************************)
(* The GET handler of /api/jobs (route.ts:6-69).                           *)
(* A query is what searchParams.get returns for the five parameters: a     *)
(* string, or Null for a parameter the URL does not have.                  *)
(***************************************************************************)
\* an outer delay shorter than the 25 s of the browser step
OuterTimeoutShort == SCRAPE_TIMEOUT - 5000
\* the delay of the timer GET races scrapeLinkedInJobs against
OUTER_TIMEOUT == 50000

\* a test for null alone: the empty string passes
TruthyNonNull(v) == v \notin {Null, Undefined}
\* !v is false
Truthy(v) == v \notin {Null, Undefined, ""}
\* v || d
OrDefault(v, d) == IF Truthy(v) THEN v ELSE d

Digits == <<"0", "1", "2", "3", "4", "5", "6", "7", "8", "9">>
IsDigit(c) == \E i \in DOMAIN Digits : Digits[i] = c
DigitValue(c) == (CHOOSE i \in DOMAIN Digits : Digits[i] = c) - 1
NaN == "<NaN>"

\* the value of the longest prefix of digits
RECURSIVE ParseDigits(_, _)
ParseDigits(s, acc) ==
    IF Len(s) = 0 \/ ~IsDigit(SubSeq(s, 1, 1)) THEN acc
    ELSE ParseDigits(SubSeq(s, 2, Len(s)),
                     acc * Len(Digits) + DigitValue(SubSeq(s, 1, 1)))

\* Number.parseInt of an unsigned string: leading whitespace is skipped, the
\* digits that follow are read, NaN when there is none
ParseInt(s) ==
    LET t == TrimStart(s)
    IN  IF Len(t) = 0 \/ ~IsDigit(SubSeq(t, 1, 1)) THEN NaN
        ELSE ParseDigits(t, 0)

\* the ScrapeOptions GET passes to scrapeLinkedInJobs (route.ts:15-31)
ScrapeOptionsOf(q) ==
    [keywords   |-> q.keywords,
     location   |-> OrDefault(q.location, ""),
     jobType    |-> OrDefault(q.jobType, "all"),
     datePosted |-> OrDefault(q.datePosted, "anytime"),
     page       |-> ParseInt(OrDefault(q.page, "1"))]

\* a URL with the keywords parameter alone, and the URLs of the model
BareQuery(keywords) ==
    [keywords |-> keywords, location |-> Null, jobType |-> Null,
     datePosted |-> Null, page |-> Null]
RouteQueries ==
    {BareQuery(Null), BareQuery(""), BareQuery("engineer"),
     [BareQuery("engineer") EXCEPT !.jobType = "fulltime"]}

\* GET(request) up to its first await: a 400 response for a query without
\* keywords, else the 50 s timer is set and scrapeLinkedInJobs is called
GET(p, q) ==
    /\ pc[p] = "idle"
    /\ \A r \in Requests : r < p => pc[r] # "idle"
    /\ params' = [params EXCEPT ![p] = q]
    /\ IF ~Truthy(q.keywords)
       THEN /\ pc' = [pc EXCEPT ![p] = "refused"]
            /\ UNCHANGED <<jobCache, now, opts, url, timer, browser,
                           completion, scrapePromise, error, result, call,
                           ret, outer, component>>
       ELSE /\ outer' = [outer EXCEPT ![p] = Armed(now + OUTER_TIMEOUT)]
            /\ scrapeLinkedInJobs(p, ScrapeOptionsOf(q))

\* the 50 s timer fires: its rejection settles the race of GET when
\* scrapeLinkedInJobs has not settled, and is without effect when it has
OuterTimer(p) ==
    /\ outer[p].kind = "armed"
    /\ now >= outer[p].at
    /\ outer' = [outer EXCEPT ![p] = Fired(pc[p] = "racing")]
    /\ UNCHANGED <<jobCache, now, pc, opts, url, timer, browser, completion,
                   scrapePromise, error, result, call, ret, params, component>>

RouteNext ==
    \/ \E p \in Requests, q \in RouteQueries : GET(p, q)
    \/ \E p \in Requests : LaunchDone(p)
    \/ \E p \in Requests, rs \in RandomSources : LaunchFailed(p, rs)
    \/ \E p \in Requests, page \in Pages, rs \in RandomSources :
          PageEvaluated(p, page, rs)
    \/ \E p \in Requests : SelectorTimedOut(p)
    \/ \E p \in Requests, err \in PageErrors : PageFailed(p, err)
    \/ \E p \in Requests, rs \in RandomSources : BrowserClosed(p, rs)
    \/ \E p \in Requests, rs \in RandomSources : Timeout(p, rs)
    \/ \E p \in Requests : OuterTimer(p)
    \/ \E t \in Instants \cup Deadlines \cup OuterDeadlines : Tick(t)

RouteSpec == Init /\ [][RouteNext]_vars

\* the body NextResponse.json is given on success (route.ts:36-41)
ResponseBody(r, page) ==
    [jobs |-> r.jobs, totalCount |-> r.totalCount,
     isFromCache |-> r.isFromCache, page |-> page]

\* the bodies and statuses GET responds with
BadRequest ==
    [status |-> 400, body |-> [error |-> "Keywords parameter is required"]]
Ok(r, page) == [status |-> 200, body |-> ResponseBody(r, page)]
ErrorResponse ==
    [status |-> 200,
     body |-> [jobs |-> <<>>, totalCount |-> 100,
               error |-> "Could not fetch real job listings, showing sample data instead",
               page |-> 1]]

\* the response of GET to request p, Pending while it awaits the race
Response(p) ==
    IF pc[p] = "refused" THEN BadRequest
    ELSE IF outer[p] = Fired(TRUE) THEN ErrorResponse
    ELSE IF pc[p] = "resolved" THEN Ok(result[p].value, opts[p].page)
    ELSE IF pc[p] = "rejected" THEN ErrorResponse
    ELSE Pending

(***************************************************************************)
(* getMockJobs applied on its own: the arguments are drawn at the start.   *)
(***************************************************************************)
MockCalls ==
    [fn : {"getMockJobs"}, keywords : {"engineer"},
     location : {"", "Berlin, Germany"}, jobType : JobTypeFilters,
     datePosted : DatePostedFilters, count : (0..MaxCount) \cup {MOCK_COUNT},
     rs : RandomSources]

MockInit ==
    /\ NoSearchYet
    /\ jobCache = [k \in {} |-> Undefined]
    /\ now = 0
    /\ pc = [p \in Requests |-> "idle"]
    /\ opts = [p \in Requests |-> NoOptions]
    /\ url = [p \in Requests |-> Undefined]
    /\ timer = [p \in Requests |-> 0]
    /\ browser = [p \in Requests |-> "none"]
    /\ completion = [p \in Requests |-> Pending]
    /\ scrapePromise = [p \in Requests |-> NotStarted]
    /\ error = [p \in Requests |-> Undefined]
    /\ result = [p \in Requests |-> NotStarted]
    /\ call \in MockCalls
    /\ ret = Pending
    /\ params = [p \in Requests |-> NoQuery]
    /\ outer = [p \in Requests |-> NoTimer]

InvokeGetMockJobs ==
    /\ call.fn = "getMockJobs"
    /\ ret = Pending
    /\ ret' = getMockJobs(call.keywords, call.location, call.jobType,
                          call.datePosted, call.count, call.rs, now)
    /\ UNCHANGED <<jobCache, now, pc, opts, url, timer, browser,
                   completion, scrapePromise, error, result, call, params,
                   outer, component>>

MockNext == InvokeGetMockJobs \/ \E t \in Instants : Tick(t)

MockSpec == MockInit /\ [][MockNext]_vars

(***************************************************************************)
(* The map callback of page.evaluate applied on its own to one listing:    *)
(* every field is absent, empty, blank or present.                         *)
(***************************************************************************)
\* no request has arrived
NoRequests ==
    /\ jobCache = [k \in {} |-> Undefined]
    /\ now = 0
    /\ pc = [p \in Requests |-> "idle"]
    /\ opts = [p \in Requests |-> NoOptions]
    /\ url = [p \in Requests |-> Undefined]
    /\ timer = [p \in Requests |-> 0]
    /\ browser = [p \in Requests |-> "none"]
    /\ completion = [p \in Requests |-> Pending]
    /\ scrapePromise = [p \in Requests |-> NotStarted]
    /\ error = [p \in Requests |-> Undefined]
    /\ result = [p \in Requests |-> NotStarted]
    /\ params = [p \in Requests |-> NoQuery]
    /\ outer = [p \in Requests |-> NoTimer]

RawListings ==
    [title    : {Undefined, "", " \n", "  Senior Engineer ", "Part time Intern"},
     company  : {Undefined, "  ", "Acme Corp"},
     location : {Undefined, "", "Berlin, Germany"},
     link     : {Undefined, "", "https://www.linkedin.com/jobs/view/1"},
     logo     : {Undefined, "https://media.licdn.com/logo.png"},
     date     : {Undefined, " ", "2 days ago"},
     salary   : {Undefined, "$100,000"}]

ExtractCalls ==
    [fn : {"extract"}, job : RawListings, index : {0, MaxExtracted - 1},
     rs : RandomSources]

ExtractInit ==
    NoRequests /\ NoSearchYet /\ call \in ExtractCalls /\ ret = Pending

InvokeExtractJob ==
    /\ call.fn = "extract"
    /\ ret = Pending
    /\ ret' = Return(ExtractJob(call.job, call.index, call.rs))
    /\ UNCHANGED <<jobCache, now, pc, opts, url, timer, browser,
                   completion, scrapePromise, error, result, call, params,
                   outer, component>>

ExtractNext == InvokeExtractJob

ExtractSpec == ExtractInit /\ [][ExtractNext]_vars

(***************************************************************************)
(* The cache key of two queries: what GET and scrapeLinkedInJobs make of   *)
(* the search parameters (route.ts:15-31, scrape-jobs.ts:20).              *)
(***************************************************************************)
KeyQueries ==
    [keywords   : {"engineer", "Engineer", " engineer "},
     location   : {Null, "", "Berlin"},
     jobType    : {Null, "all"},
     datePosted : {Null, "anytime"},
     page       : {Null, "1", "2"}]

\* queries with a hyphen in a field
HyphenQueries ==
    {[keywords |-> "engineer", location |-> "Winston-Salem", jobType |-> Null,
      datePosted |-> Null, page |-> Null],
     [keywords |-> "engineer-Winston", location |-> "Salem", jobType |-> Null,
      datePosted |-> Null, page |-> Null]}

KeyCalls ==
    [fn : {"cacheKey"}, a : KeyQueries \cup HyphenQueries,
     b : KeyQueries \cup HyphenQueries]

KeyInit == NoRequests /\ NoSearchYet /\ call \in KeyCalls /\ ret = Pending

InvokeCacheKey ==
    /\ call.fn = "cacheKey"
    /\ ret = Pending
    /\ ret' = Return(<<cacheKey(ScrapeOptionsOf(call.a)),
                       cacheKey(ScrapeOptionsOf(call.b))>>)
    /\ UNCHANGED <<jobCache, now, pc, opts, url, timer, browser,
                   completion, scrapePromise, error, result, call, params,
                   outer, component>>

KeyNext == InvokeCacheKey

KeySpec == KeyInit /\ [][KeyNext]_vars

(***************************************************************************)
(* The orchestrator with the progress of the browser: every await of the   *)
(* session function settles (chromium.launch within its 30 s default       *)
(* timeout, page.goto within 20 s, waitForSelector within 15 s,            *)
(* waitForTimeout after 2 s, browser.close()). Each of these steps changes  *)
(* browser[p], so its fairness is stated on browser.                       *)
(***************************************************************************)
LiveNext ==
    \/ \E p \in Requests : Start(p, BaseOptions)
    \/ \E p \in Requests : LaunchDone(p)
    \/ \E p \in Requests, rs \in RandomSources : LaunchFailed(p, rs)
    \/ \E p \in Requests, page \in Pages, rs \in RandomSources :
          PageEvaluated(p, page, rs)
    \/ \E p \in Requests : SelectorTimedOut(p)
    \/ \E p \in Requests, err \in PageErrors : PageFailed(p, err)
    \/ \E p \in Requests, rs \in RandomSources : BrowserClosed(p, rs)
    \/ \E p \in Requests, rs \in RandomSources : Timeout(p, rs)
    \/ \E t \in Instants \cup Deadlines : Tick(t)

SessionProgress ==
    \A p \in Requests :
        /\ WF_browser(LaunchDone(p) \/ \E rs \in RandomSources : LaunchFailed(p, rs))
        /\ WF_browser((\E page \in Pages, rs \in RandomSources :
                       PageEvaluated(p, page, rs))
                   \/ \E err \in PageErrors : PageFailed(p, err))
        /\ WF_browser(\E rs \in RandomSources : BrowserClosed(p, rs))

LiveSpec == Init /\ [][LiveNext]_vars /\ SessionProgress

(***************************************************************************)
(* What the caller sees of a result.                                       *)
(***************************************************************************)
\* obj.warning, undefined for an object without the property
WarningOf(obj) == IF "warning" \in DOMAIN obj THEN obj.warning ELSE Undefined

NO_RESULTS_WARNING ==
    "No jobs found matching your criteria. Try broadening your search."

\* data.error, undefined for a body without the property
ErrorOf(data) == IF "error" \in DOMAIN data THEN data.error ELSE Undefined

\* the warning state of JobResults after a response body (job-results.tsx:
\* 45, 72-77): setWarning(null), then the API's error or the no-results one
DisplayedWarning(data) ==
    IF ErrorOf(data) \notin {Undefined, ""} THEN data.error
    ELSE IF Len(data.jobs) = 0 THEN NO_RESULTS_WARNING
    ELSE Null

(***************************************************************************)
(* Vocabulary of the properties.                                           *)
(***************************************************************************)
Settled(p) == pc[p] \in {"resolved", "rejected"}
Returned(p) == pc[p] = "resolved"
\* the object request p's call returned
Value(p) == result[p].value
Key(p) == cacheKey(opts[p])
\* the browser step of request p failed: the catch block ran
BrowserFailed(p) == error[p] # Undefined
\* the paths of a call that returned
ViaHit(p) == Returned(p) /\ Value(p).isFromCache
ViaScrape(p) == Returned(p) /\ ~Value(p).isFromCache /\ ~BrowserFailed(p)
ViaFallback(p) == Returned(p) /\ BrowserFailed(p)
\* this step is request p's call, with options o
Calls(p, o) == pc[p] = "idle" /\ pc'[p] # "idle" /\ opts'[p] = o
\* this step settles the race of request p with the session's jobs
RaceWonWith(p, jobs) ==
    /\ pc[p] = "racing" /\ browser[p] = "closing" /\ browser'[p] = "closed"
    /\ completion[p].kind = "return" /\ completion[p].value = jobs
\* this step settles the race of request p with a failure
RaceLost(p) == pc[p] = "racing" /\ pc'[p] # "racing" /\ error'[p] # Undefined
Range(arr) == {arr[i] : i \in DOMAIN arr}

(***************************************************************************)
(* The JobResults component (job-results.tsx) with its Pagination          *)
(* (pagination.tsx). The effect on [searchParams] starts a fetch of        *)
(* /api/jobs and has no cleanup: every fetch runs to its settlement and    *)
(* then sets the state, whatever the search parameters are by then. The    *)
(* state setters of one continuation are batched into one render.          *)
(***************************************************************************)
MaxFetches == 3
itemsPerPage == 10

\* the search parameters the URL of the page can carry
SearchParams ==
    [keywords : {Null, "engineer", "designer"}, location : {Null},
     jobType : {Null}, datePosted : {Null}]

\* those with keywords, for which the effect fetches
Searches == {q \in SearchParams : Truthy(q.keywords)}

\* the URL fetchJobs requests (job-results.tsx:48-62): it has no page
ApiUrl(q) ==
    "/api/jobs?keywords=" \o EncodeURIComponent(q.keywords)
    \o "&location=" \o EncodeURIComponent(OrDefault(q.location, ""))
    \o "&jobType=" \o OrDefault(q.jobType, "all")
    \o "&datePosted=" \o OrDefault(q.datePosted, "anytime")

\* the sizes of the job lists /api/jobs answers with: at most 15, the cap of
\* the extraction and the size of the fallback
JobCounts == {0, 1, itemsPerPage, itemsPerPage + 1}
\* n jobs found for keywords
ApiJobs(keywords, n) == [i \in 1..n |-> [id |-> i, title |-> keywords]]
\* the bodies GET answers a query with (route.ts:36-41, 56-66): scraped
\* jobs, 15 cached jobs, 15 mock jobs, and the body of its catch block
ApiBodies(q) ==
    {ResponseBody(ScrapedResult(ApiJobs(q.keywords, n)), 1) : n \in JobCounts}
    \cup {ResponseBody(HitResult([jobs |-> ApiJobs(q.keywords, MaxExtracted),
                                  timestamp |-> 0]), 1),
          ResponseBody(MockResult(ApiJobs(q.keywords, MOCK_COUNT)), 1),
          ErrorResponse.body}
\* how a fetch can settle: a 200 with a body, a status that is not ok, a
\* network failure, the abort of the 30 s timer
FetchOutcomes(q) ==
    {Fulfilled([ok |-> TRUE, status |-> 200, data |-> d]) : d \in ApiBodies(q)}
    \cup {Fulfilled([ok |-> FALSE, status |-> 504]),
          Rejected([name |-> "TypeError", message |-> "Failed to fetch"]),
          Rejected([name |-> "AbortError",
                    message |-> "signal is aborted without reason"])}

\* data.name || fallback, for a property the body may lack
FieldOr(data, name, fallback) ==
    IF name \in DOMAIN data THEN data[name] ELSE fallback

\* setIsLoading(true), setError(null), setWarning(null)
Loading(state) ==
    [state EXCEPT !.isLoading = TRUE, !.error = Null, !.warning = Null]

\* the state after the try block of fetchJobs got the body data, and after
\* its finally block
AfterData(state, data) ==
    [state EXCEPT
        !.warning = IF ErrorOf(data) \notin {Undefined, ""} THEN data.error
                    ELSE IF Len(FieldOr(data, "jobs", <<>>)) = 0
                    THEN NO_RESULTS_WARNING
                    ELSE @,
        !.jobs = FieldOr(data, "jobs", <<>>),
        !.totalCount = FieldOr(data, "totalCount", 0),
        !.isFromCache = FieldOr(data, "isFromCache", FALSE),
        !.currentPage = 1,
        !.isLoading = FALSE]
\* the state after the catch block of fetchJobs caught err, and after its
\* finally block
AfterError(state, err) ==
    [state EXCEPT
        !.error = IF err.name = "AbortError"
                  THEN "Request timed out. Please try again with a simpler search."
                  ELSE "Failed to fetch job listings: " \o err.message,
        !.jobs = <<>>,
        !.isLoading = FALSE]
\* the state after fetchJobs resumed with the settlement of its fetch
AfterFetch(state, outcome) ==
    IF outcome.kind = "rejected" THEN AfterError(state, outcome.reason)
    ELSE IF ~outcome.value.ok
    THEN AfterError(state,
                    [name |-> "Error",
                     message |-> "API error: " \o ToString(outcome.value.status)])
    ELSE AfterData(state, outcome.value.data)

\* the effect on [searchParams]: nothing without keywords, else fetchJobs up
\* to its await of fetch
EffectState(state, q) == IF Truthy(q.keywords) THEN Loading(state) ELSE state
EffectFetches(log, q) ==
    IF Truthy(q.keywords)
    THEN Append(log, [url |-> ApiUrl(q), response |-> Pending])
    ELSE log

\* the page is loaded at a URL with search parameters q
Mounted(q) ==
    /\ searchParams = q
    /\ jobResults = EffectState(UseState, q)
    /\ fetches = EffectFetches(<<>>, q)

ComponentInit ==
    /\ NoRequests /\ call = NoCall /\ ret = Pending
    /\ \E q \in SearchParams : Mounted(q)

\* the search form pushes a URL with other search parameters
Navigate(q) ==
    /\ q # searchParams
    /\ Truthy(q.keywords) => Len(fetches) < MaxFetches
    /\ searchParams' = q
    /\ jobResults' = EffectState(jobResults, q)
    /\ fetches' = EffectFetches(fetches, q)
    /\ UNCHANGED server

\* the i-th fetch, made for the search q, settles and fetchJobs runs to its
\* end
FetchSettled(i, q, outcome) ==
    /\ i \in DOMAIN fetches
    /\ fetches[i].url = ApiUrl(q)
    /\ fetches[i].response = Pending
    /\ fetches' = [fetches EXCEPT ![i].response = outcome]
    /\ jobResults' = AfterFetch(jobResults, outcome)
    /\ UNCHANGED <<searchParams, server>>

\* what JobResults renders (job-results.tsx:114-155)
View ==
    IF ~Truthy(searchParams.keywords) THEN "placeholder"
    ELSE IF jobResults.isLoading THEN "skeleton"
    ELSE IF Truthy(jobResults.error) THEN "error"
    ELSE "results"
Ceil(n, d) == (n + d - 1) \div d
totalPages == Ceil(Len(jobResults.jobs), itemsPerPage)
startIndex == (jobResults.currentPage - 1) * itemsPerPage
endIndex == Min(startIndex + itemsPerPage, Len(jobResults.jobs))
\* jobs.slice(startIndex, endIndex)
displayedJobs ==
    IF startIndex >= endIndex THEN <<>>
    ELSE SubSeq(jobResults.jobs, startIndex + 1, endIndex)
\* the Pagination is rendered
Paginated == View = "results" /\ Len(jobResults.jobs) > 10

\* a "..." entry of getPageNumbers, which is not a button
Ellipsis == 0
Max(a, b) == IF a > b THEN a ELSE b
\* getPageNumbers() of Pagination
getPageNumbers(currentPage, pages) ==
    LET start == Max(2, currentPage - 1)
        end   == Min(pages - 1, currentPage + 1)
    IN  <<1>>
        \o (IF start > 2 THEN <<Ellipsis>> ELSE <<>>)
        \o [i \in 1..(end - start + 1) |-> start + i - 1]
        \o (IF end < pages - 1 THEN <<Ellipsis>> ELSE <<>>)
        \o (IF pages > 1 THEN <<pages>> ELSE <<>>)

\* a next button that is never disabled
NextAlwaysEnabled(currentPage, pages) == FALSE
\* disabled={currentPage === 1}, disabled={currentPage === totalPages}
PreviousDisabled(currentPage) == currentPage = 1
NextDisabled(currentPage, pages) == currentPage = pages

\* handlePageChange(page)
handlePageChange(page) ==
    /\ jobResults' = [jobResults EXCEPT !.currentPage = page]
    /\ UNCHANGED <<searchParams, fetches, server>>

\* clicks on the previous button, the next button and a page button
ClickPrevious ==
    /\ Paginated /\ ~PreviousDisabled(jobResults.currentPage)
    /\ handlePageChange(jobResults.currentPage - 1)
ClickNext ==
    /\ Paginated /\ ~NextDisabled(jobResults.currentPage, totalPages)
    /\ handlePageChange(jobResults.currentPage + 1)
ClickPage(page) ==
    /\ Paginated
    /\ page \in Range(getPageNumbers(jobResults.currentPage, totalPages))
             \ {Ellipsis}
    /\ handlePageChange(page)

\* "Try Again" on the error card: window.location.reload()
Reload ==
    /\ View = "error"
    /\ jobResults' = EffectState(UseState, searchParams)
    /\ fetches' = EffectFetches(<<>>, searchParams)
    /\ UNCHANGED <<searchParams, server>>

ComponentNext ==
    \/ \E q \in SearchParams : Navigate(q)
    \/ \E i \in 1..MaxFetches, q \in Searches :
          \E outcome \in FetchOutcomes(q) : FetchSettled(i, q, outcome)
    \/ ClickPrevious
    \/ ClickNext
    \/ \E page \in 1..Ceil(MaxExtracted, itemsPerPage) : ClickPage(page)
    \/ Reload

ComponentSpec == ComponentInit /\ [][ComponentNext]_vars

(***************************************************************************)
(* Properties.                                                             *)
(***************************************************************************)

\* C1: scrapeLinkedInJobs never rejects: whatever the query and whatever the
\* outcome of the browser step, the call settles by returning a result.
C1_NeverRejects == \A p \in Requests : pc[p] # "rejected"

\* C2: every result returned, on every path, has at most 25 jobs and a
\* totalCount of at least the number of jobs.
C2_ResultBounds ==
    \A p \in Requests :
        Returned(p) =>
            /\ Len(Value(p).jobs) <= 25
            /\ Value(p).totalCount >= Len(Value(p).jobs)
\* a page of more listings than are kept was scraped and returned
C2_Witness ==
    \E p \in Requests :
        ViaScrape(p) /\ Len(Value(p).jobs) = MaxExtracted
                     /\ Value(p).totalCount > MaxExtracted

\* C3: a call that repeats the options of a call that returned after a cache
\* miss, while the entry that call wrote is younger than the TTL, returns
\* isFromCache = true with the jobs and the totalCount the first call returned.
C3_Idempotent ==
    [][\A p, q \in Requests :
          (/\ p # q
           /\ Returned(p) /\ ~Value(p).isFromCache
           /\ Calls(q, opts[p])
           /\ Has(jobCache, Key(p))
           /\ now - jobCache[Key(p)].timestamp < CACHE_TIME)
          => /\ pc'[q] = "resolved"
             /\ result'[q].value.isFromCache
             /\ result'[q].value.jobs = Value(p).jobs
             /\ result'[q].value.totalCount = Value(p).totalCount]_vars

\* C4: a call made when the entry of its key is older than the TTL is not
\* answered from that entry: it starts a browser session, and what it
\* returns after one has isFromCache = false.
C4_Expiry ==
    /\ [][\A q \in Requests, o \in OptionsSet :
             (/\ Calls(q, o)
              /\ Has(jobCache, cacheKey(o))
              /\ now - jobCache[cacheKey(o)].timestamp > CACHE_TIME)
             => pc'[q] = "racing" /\ browser'[q] = "launching"]_vars
    /\ [](\A q \in Requests :
             Returned(q) /\ browser[q] # "none" => ~Value(q).isFromCache)
\* a call is racing its session while the entry of its key is stale
C4_Witness ==
    \E q \in Requests :
        /\ pc[q] = "racing"
        /\ Has(jobCache, Key(q))
        /\ now - jobCache[Key(q)].timestamp > CACHE_TIME

\* C5: when the browser step fails, the call returns a non-empty list of
\* mock jobs with isFromCache = false and has written them to the cache
\* under the key of its options.
C5_FallbackCached ==
    [][\A p \in Requests :
          RaceLost(p) =>
              /\ pc'[p] = "resolved"
              /\ Len(result'[p].value.jobs) > 0
              /\ ~result'[p].value.isFromCache
              /\ Has(jobCache', Key(p))
              /\ jobCache'[Key(p)].jobs = result'[p].value.jobs]_vars

\* C6: when the browser step fails, the result returned, and the response
\* body made of it, carry a warning; the warning of a failure by the 25 s
\* timer mentions the timeout.
C6_WarningNamesFailure ==
    \A p \in Requests :
        ViaFallback(p) =>
            /\ WarningOf(Value(p)) # Undefined
            /\ WarningOf(ResponseBody(Value(p), opts[p].page)) # Undefined
            /\ error[p] = "Scraping timeout"
                  => Includes(ToLowerCase(WarningOf(Value(p))), "timeout")

\* C7: a call that finds a fresh entry under its key returns at once with
\* isFromCache = true and no warning, starts no browser session and leaves
\* the cache as it was.
C7_HitFrame ==
    [][\A p \in Requests, o \in OptionsSet :
          Calls(p, o) /\ CacheHit(jobCache, cacheKey(o), now) =>
              /\ pc'[p] = "resolved"
              /\ result'[p].value.isFromCache
              /\ WarningOf(result'[p].value) = Undefined
              /\ browser'[p] = "none" /\ scrapePromise'[p] = NotStarted
              /\ timer'[p] = 0
              /\ jobCache' = jobCache]_vars
\* a call has returned from the cache
C7_Witness == \E p \in Requests : ViaHit(p) /\ browser[p] = "none"

C9_TotalIsCount ==
    [][\A p \in Requests :
          pc[p] = "racing" /\ browser[p] = "closing" /\ browser'[p] = "closed"
          /\ completion[p].kind = "return" /\ Len(completion[p].value) >= 1
          => /\ pc'[p] = "resolved"
             /\ result'[p].value.jobs = completion[p].value
             /\ result'[p].value.totalCount = Len(completion[p].value)
             /\ ~result'[p].value.isFromCache
             /\ WarningOf(result'[p].value) = Undefined
             /\ Has(jobCache', Key(p))
             /\ jobCache'[Key(p)].jobs = completion[p].value]_vars

\* C9, amended: as claimed, but with totalCount three times the number of
\* extracted jobs.
C9_TotalIsTriple ==
    [][\A p \in Requests :
          pc[p] = "racing" /\ browser[p] = "closing" /\ browser'[p] = "closed"
          /\ completion[p].kind = "return" /\ Len(completion[p].value) >= 1
          => /\ pc'[p] = "resolved"
             /\ result'[p].value.jobs = completion[p].value
             /\ result'[p].value.totalCount = 3 * Len(completion[p].value)
             /\ ~result'[p].value.isFromCache
             /\ WarningOf(result'[p].value) = Undefined
             /\ Has(jobCache', Key(p))
             /\ jobCache'[Key(p)] =
                   [jobs |-> completion[p].value, timestamp |-> now]]_vars
\* extracted jobs were returned and are the entry of their key
C9_Witness ==
    \E p \in Requests :
        /\ ViaScrape(p) /\ Len(Value(p).jobs) >= 1
        /\ Has(jobCache, Key(p)) /\ jobCache[Key(p)].jobs = Value(p).jobs

\* C10: getMockJobs(keywords, location, jobType, datePosted, n) returns
\* exactly n jobs, each with a jobType of the jobTypes list, for every
\* jobType filter.
C10_ExactlyN ==
    ret # Pending =>
        /\ ret.kind = "return"
        /\ Len(ret.value) = call.count
        /\ \A i \in DOMAIN ret.value : ret.value[i].jobType \in Range(jobTypes)

\* a selector matched nothing, or the text it matched is empty or blank
Absent(text) == text = Undefined \/ Trim(text) = ""
\* a field that is there and is not the empty string
Populated(v) == v \notin {Undefined, Null, ""}

\* C11: the Job extracted from any raw listing, one where no selector matches
\* or the matched text is empty included, has a non-empty title, company,
\* location, jobType, datePosted, description and url; an absent title,
\* company, location or date is replaced by "Unknown Position", "Unknown
\* Company", "Unknown Location", "Recently posted", and the jobType of a
\* listing without a title is "Full-time".
C11_ExtractionComplete ==
    (call.fn = "extract" /\ ret # Pending) =>
        LET job == ret.value
            raw == call.job
        IN  /\ ret.kind = "return"
            /\ Populated(job.title) /\ Populated(job.company)
            /\ Populated(job.location) /\ Populated(job.jobType)
            /\ Populated(job.datePosted) /\ Populated(job.description)
            /\ Populated(job.url)
            /\ Absent(raw.title) =>
                  job.title = "Unknown Position" /\ job.jobType = "Full-time"
            /\ Absent(raw.company) => job.company = "Unknown Company"
            /\ Absent(raw.location) => job.location = "Unknown Location"
            /\ Absent(raw.date) => job.datePosted = "Recently posted"
            /\ ~Absent(raw.title) => job.title = Trim(raw.title)
\* a listing whose selectors match nothing or empty text was extracted
C11_Witness ==
    /\ call.fn = "extract" /\ ret # Pending
    /\ call.job.title = Undefined /\ call.job.company = "  "
    /\ call.job.location = "" /\ call.job.date = Undefined
    /\ call.job.link = Undefined
    /\ ret.value.title = "Unknown Position" /\ ret.value.url = "#"

\* the 25 s timer settled the race of request p
TimedOut(p) == error[p] = "Scraping timeout"

\* C12: when the 25 s timer settles the race before the session does, the
\* session still runs to its finally block and its browser is closed (or was
\* never launched); a launched browser is always closed in the end.
C12_SessionClosed ==
    \A p \in Requests :
        /\ (TimedOut(p) /\ browser[p] = "launching")
              ~> (browser[p] \in {"closed", "failed"})
        /\ (browser[p] \in {"open", "waited", "closing"})
              ~> (browser[p] = "closed")
\* the browser of a request whose race the timer settled has been closed
C12_Witness == \E p \in Requests : TimedOut(p) /\ browser[p] = "closed"

\* this step is request p's GET, with query q
Gets(p, q) == pc[p] = "idle" /\ pc'[p] # "idle" /\ params'[p] = q
\* request p's GET had no keywords parameter, or an empty one
Invalid(p) == params[p] # NoQuery /\ params[p].keywords \in {Null, ""}

\* C13: a GET whose keywords parameter is missing or empty is answered with
\* status 400 at once: scrapeLinkedInJobs is not called for it (no cache
\* lookup, no timer, no browser session, no cache write), then or later, and
\* the step leaves the cache as it was.
C13_InvalidQueryRefused ==
    /\ [][\A p \in Requests, q \in RouteQueries :
             Gets(p, q) /\ q.keywords \in {Null, ""} =>
                 /\ pc'[p] = "refused"
                 /\ jobCache' = jobCache
                 /\ browser' = browser /\ timer' = timer /\ outer' = outer]_vars
    /\ [](\A p \in Requests :
             Invalid(p) =>
                 /\ Response(p) = BadRequest
                 /\ opts[p] = NoOptions /\ result[p] = NotStarted
                 /\ scrapePromise[p] = NotStarted /\ browser[p] = "none"
                 /\ timer[p] = 0 /\ outer[p] = NoTimer
                 /\ \A k \in DOMAIN jobCache :
                       \E r \in Requests : r # p /\ Settled(r) /\ Key(r) = k)
\* a GET without keywords and a GET with empty keywords were refused
C13_Witness ==
    \E p, r \in Requests :
        /\ pc[p] = "refused" /\ params[p].keywords = Null
        /\ pc[r] = "refused" /\ params[r].keywords = ""

\* the four query fields of the options
QueryOf(o) == <<o.keywords, o.location, o.jobType, o.datePosted>>
\* request p's call returned after a miss, and the entry of its key is
\* younger than the TTL
WroteFresh(p) ==
    /\ Returned(p) /\ ~Value(p).isFromCache
    /\ Has(jobCache, Key(p))
    /\ now - jobCache[Key(p)].timestamp < CACHE_TIME

\* C14, as claimed: a call whose keywords, location, jobType and datePosted
\* equal those of a call that wrote a still fresh entry is a cache hit,
\* whatever its page.
C14_FourFieldIdentity ==
    [][\A p, q \in Requests, o \in OptionsSet :
          (/\ p # q /\ WroteFresh(p)
           /\ Calls(q, o) /\ QueryOf(o) = QueryOf(opts[p]))
          => pc'[q] = "resolved" /\ result'[q].value.isFromCache]_vars

\* C14, amended: the key holds the page as well. A call whose five options
\* equal those of a call that wrote a still fresh entry is a hit on that
\* entry; a call that differs from it in the page (and whose own five options
\* no call wrote a fresh entry for) misses and starts a browser session.
C14_FiveFieldIdentity ==
    [][\A p, q \in Requests, o \in OptionsSet :
          (p # q /\ WroteFresh(p) /\ Calls(q, o)) =>
              /\ o = opts[p] =>
                    /\ pc'[q] = "resolved"
                    /\ result'[q].value = HitResult(jobCache[Key(p)])
              /\ (/\ QueryOf(o) = QueryOf(opts[p])
                  /\ o.page # opts[p].page
                  /\ ~\E r \in Requests : WroteFresh(r) /\ opts[r] = o)
                 => /\ pc'[q] = "racing"
                    /\ browser'[q] = "launching"
                    /\ jobCache' = jobCache]_vars
\* a call for another page of a query whose entry is fresh is racing its
\* own session
C14_Witness ==
    \E p, q \in Requests :
        /\ p # q /\ WroteFresh(p) /\ pc[q] = "racing"
        /\ QueryOf(opts[q]) = QueryOf(opts[p])
        /\ opts[q].page # opts[p].page
        /\ timer[q] - SCRAPE_TIMEOUT > jobCache[Key(p)].timestamp

\* no two jobs of the list have the same id
DistinctIds(jobs) ==
    \A i, j \in DOMAIN jobs : i # j => jobs[i].id # jobs[j].id

\* C15: in every result returned, with extracted jobs and with mock jobs
\* alike, no two jobs have the same id.
C15_UniqueIds ==
    \A p \in Requests : Returned(p) => DistinctIds(Value(p).jobs)

\* C16: there is no single-flight deduplication. A call made while another
\* call of the same key is still racing (it has not written the cache), and
\* that finds no fresh entry, misses as well and starts a browser session of
\* its own, next to the first one's.
C16_NoSingleFlight ==
    [][\A p, q \in Requests, o \in OptionsSet :
          (/\ p # q /\ pc[p] = "racing"
           /\ Calls(q, o) /\ cacheKey(o) = Key(p)
           /\ ~CacheHit(jobCache, cacheKey(o), now))
          => /\ pc'[q] = "racing"
             /\ browser'[q] = "launching"
             /\ scrapePromise'[q] = Pending
             /\ url'[q] = url[p]
             /\ pc'[p] = "racing" /\ browser'[p] = browser[p]]_vars
\* two calls of one key, the second made before the first wrote the cache,
\* each ran a browser session to its end and returned what it extracted
C16_Witness ==
    \E p, q \in Requests :
        /\ p # q /\ ViaScrape(p) /\ ViaScrape(q)
        /\ opts[p] = opts[q]
        /\ browser[p] = "closed" /\ browser[q] = "closed"
        /\ now < CACHE_TIME

\* this step settles the race of request p: the session's promise settles,
\* or the 25 s timer fires
RaceSettles(p) ==
    /\ pc[p] = "racing" /\ pc'[p] # "racing"
    /\ \/ scrapePromise[p] = Pending /\ IsSettled(scrapePromise'[p])
       \/ now >= timer[p] /\ error'[p] = "Scraping timeout"

\* C17: a call that misses goes through cache lookup, browser step,
\* extraction or fallback, cache write, response, in that order. The call
\* itself writes nothing and returns nothing; while the browser step is
\* pending nothing is returned; the cache is written only in the step that
\* settles a call's race, under that call's key, with the jobs that call
\* returns; and a call returns after a miss only with its jobs in the cache.
C17_StepOrder ==
    /\ [][\A p \in Requests :
             pc[p] = "idle" /\ pc'[p] = "racing" =>
                 jobCache' = jobCache /\ result'[p] = NotStarted]_vars
    /\ [](\A p \in Requests : pc[p] = "racing" => result[p] = NotStarted)
    /\ [][jobCache' # jobCache =>
             \E p \in Requests :
                 /\ RaceSettles(p) /\ pc'[p] = "resolved"
                 /\ jobCache' = CacheSet(jobCache, Key(p),
                                         result'[p].value.jobs, now)]_vars
    /\ [][\A p \in Requests :
             pc[p] = "racing" /\ pc'[p] = "resolved" =>
                 /\ RaceSettles(p)
                 /\ IF error'[p] = Undefined
                    THEN result'[p].value.jobs = scrapePromise'[p].value
                    ELSE Len(result'[p].value.jobs) = MOCK_COUNT
                 /\ Has(jobCache', Key(p))
                 /\ jobCache'[Key(p)] =
                       [jobs |-> result'[p].value.jobs, timestamp |-> now]]_vars
\* a call has returned mock jobs after its browser step failed, and they are
\* the entry of its key
C17_Witness ==
    \E p \in Requests :
        /\ ViaFallback(p) /\ browser[p] # "none"
        /\ Has(jobCache, Key(p))
        /\ jobCache[Key(p)].jobs = Value(p).jobs
        /\ Len(Value(p).jobs) = MOCK_COUNT

\* C18: the 50 s timer of GET never settles the race of GET. While
\* scrapeLinkedInJobs is pending its own 25 s timer is pending too and fires
\* first, and the clock has not passed it; the 50 s timer fires only after
\* scrapeLinkedInJobs has settled (returned or, with C1, thrown), and leaves
\* the response as it was.
C18_CoreBeatsOuterDeadline ==
    /\ [](\A p \in Requests :
             /\ outer[p] # Fired(TRUE)
             /\ (pc[p] = "racing" /\ params[p] # NoQuery) =>
                   /\ outer[p].kind = "armed"
                   /\ timer[p] + (OUTER_TIMEOUT - SCRAPE_TIMEOUT) = outer[p].at
                   /\ timer[p] < outer[p].at
                   /\ now <= timer[p])
    /\ [][\A p \in Requests :
             (outer[p].kind = "armed" /\ outer'[p].kind = "fired") =>
                 /\ Settled(p)
                 /\ Response(p) # Pending
                 /\ Response(p)' = Response(p)]_vars
\* the 25 s timer settled the browser step of a GET, and the 50 s timer of
\* that GET fired later, without effect
C18_Witness ==
    \E p \in Requests :
        /\ outer[p] = Fired(FALSE) /\ TimedOut(p) /\ Returned(p)
        /\ Response(p) = Ok(Value(p), opts[p].page)

\* the age of the entry of key at clock reading t
Age(cache, key, t) == t - cache[key].timestamp

\* C19, as claimed: a call finds no entry only when there is none under its
\* key or the entry's age exceeds the TTL; an entry whose age is at most the
\* TTL, exactly 30 minutes included, is returned as a hit.
C19_HitUpToTTL ==
    [][\A q \in Requests, o \in OptionsSet :
          (/\ Calls(q, o)
           /\ Has(jobCache, cacheKey(o))
           /\ Age(jobCache, cacheKey(o), now) <= CACHE_TIME)
          => pc'[q] = "resolved" /\ result'[q].value.isFromCache]_vars

\* C19, amended: an entry is returned as a hit exactly when its age is
\* strictly less than the TTL; a call that finds no entry, or an entry whose
\* age is the TTL or more, exactly 30 minutes included, misses and starts a
\* browser session.
C19_HitBelowTTL ==
    [][\A q \in Requests, o \in OptionsSet :
          Calls(q, o) =>
              IF /\ Has(jobCache, cacheKey(o))
                 /\ Age(jobCache, cacheKey(o), now) < CACHE_TIME
              THEN /\ pc'[q] = "resolved"
                   /\ result'[q].value = HitResult(jobCache[cacheKey(o)])
              ELSE /\ pc'[q] = "racing"
                   /\ browser'[q] = "launching"
                   /\ result'[q] = NotStarted]_vars
\* a call made when the entry of its key was exactly 30 minutes old is
\* racing its session
C19_Witness ==
    \E q \in Requests :
        /\ pc[q] = "racing"
        /\ Has(jobCache, Key(q))
        /\ (timer[q] - SCRAPE_TIMEOUT) - jobCache[Key(q)].timestamp = CACHE_TIME

\* the normalized form of a query, as the specification describes it: every
\* field trimmed and lower-cased, a missing or empty optional field replaced
\* by its default
NormalizeField(v, default) ==
    IF v = Null \/ Trim(v) = "" THEN default ELSE ToLowerCase(Trim(v))
Normalize(q) ==
    [keywords   |-> NormalizeField(q.keywords, ""),
     location   |-> NormalizeField(q.location, ""),
     jobType    |-> NormalizeField(q.jobType, "all"),
     datePosted |-> NormalizeField(q.datePosted, "anytime"),
     page       |-> NormalizeField(q.page, "1")]

\* C20: two queries that differ only in surrounding whitespace or letter
\* case of their fields, or in an optional field being omitted or given its
\* default value, have the same cache key.
C20_NormalizedFingerprint ==
    (call.fn = "cacheKey" /\ ret # Pending) =>
        (Normalize(call.a) = Normalize(call.b) => ret.value[1] = ret.value[2])

\* the ordered keyword list of the specification, and the type of the first
\* keyword, from the i-th on, that the lower-cased title holds
TitleKeywords ==
    << <<"part-time", "Part-time">>, <<"part time", "Part-time">>,
       <<"contract", "Contract">>, <<"intern", "Internship">>,
       <<"remote", "Remote">> >>
RECURSIVE FirstMatch(_, _)
FirstMatch(lower, i) ==
    IF i > Len(TitleKeywords) THEN "Full-time"
    ELSE IF Includes(lower, TitleKeywords[i][1]) THEN TitleKeywords[i][2]
    ELSE FirstMatch(lower, i + 1)
\* the titles a session can return, and the type the list gives each
ExtractedTitles ==
    UNION {{Evaluate(page, rs)[i].title : i \in DOMAIN Evaluate(page, rs)} :
           page \in Pages, rs \in RandomSources}
TypeOfTitle ==
    [title \in ExtractedTitles |-> FirstMatch(ToLowerCase(title), 1)] @@ <<>>
\* this step is the return of the try block of request p's session
Extracts(p) ==
    browser[p] \in {"open", "waited"} /\ browser'[p] = "closing"
    /\ completion'[p].kind = "return"

\* C21: the jobType of every job a session extracts, whatever the jobType
\* filter of the request, is the type of the first keyword of the list
\* part-time / part time, contract, intern, remote that the job's lower-cased
\* title holds, and Full-time when it holds none.
C21_TypeFromTitle ==
    [][\A p \in Requests :
          Extracts(p) =>
              \A i \in DOMAIN completion'[p].value :
                  LET job == completion'[p].value[i]
                  IN  job.jobType = TypeOfTitle[job.title]]_vars
\* a request that filters on fulltime returned extracted jobs of every type
C21_Witness ==
    \E p \in Requests :
        /\ ViaScrape(p) /\ opts[p].jobType = "fulltime"
        /\ \A type \in {"Part-time", "Contract", "Internship", "Remote",
                        "Full-time"} :
              \E i \in DOMAIN Value(p).jobs : Value(p).jobs[i].jobType = type

\* C22: when the wait for the result-list selector has timed out, the try
\* block of the session ends by throwing, so that the browser step fails and
\* the call answers with fallback jobs: it never ends by returning extracted
\* jobs.
C22_SelectorTimeoutFails ==
    [][\A p \in Requests :
          browser[p] = "waited" /\ browser'[p] # "waited" =>
              completion'[p].kind = "throw"]_vars

\* C23: getMockJobs is a function of its arguments and its random draws: a
\* second call with the arguments and the draws of the first, made at any
\* clock reading, returns what the first returned, ids included.
C23_PureGenerator ==
    ret # Pending =>
        \A t \in Instants :
            getMockJobs(call.keywords, call.location, call.jobType,
                        call.datePosted, call.count, call.rs, t) = ret

\* C24: a cache write replaces the entry of its key whole and touches no other
\* key: whenever the cache changes, some call is returning after a miss and
\* the entry of its key becomes exactly the jobs it returns with the clock
\* reading of the write, whatever the entry held before; and at all times
\* every entry holds the jobs some returned call returned for that key,
\* written no later than now.
C24_WriteReplaces ==
    /\ [][jobCache' # jobCache =>
             \E p \in Requests :
                 /\ pc[p] = "racing" /\ pc'[p] = "resolved"
                 /\ DOMAIN jobCache' = DOMAIN jobCache \cup {Key(p)}
                 /\ jobCache'[Key(p)] =
                       [jobs |-> result'[p].value.jobs, timestamp |-> now]
                 /\ \A k \in DOMAIN jobCache :
                       k # Key(p) => jobCache'[k] = jobCache[k]]_vars
    /\ [](\A k \in DOMAIN jobCache :
             /\ jobCache[k].timestamp <= now
             /\ \E p \in Requests :
                   /\ Returned(p) /\ Key(p) = k
                   /\ Value(p).jobs = jobCache[k].jobs)
\* two calls for one key both wrote, the later one at a later clock reading
\* and with other jobs than the earlier: the entry is the later write
C24_Witness ==
    \E p, q \in Requests :
        /\ p # q /\ Returned(p) /\ Returned(q) /\ Key(p) = Key(q)
        /\ ~Value(p).isFromCache /\ ~Value(q).isFromCache
        /\ Len(Value(p).jobs) > 0 /\ Len(Value(q).jobs) > 0
        /\ Value(p).jobs # Value(q).jobs
        /\ Has(jobCache, Key(q))
        /\ jobCache[Key(q)].jobs = Value(q).jobs
        /\ jobCache[Key(q)].timestamp > 0

\* C25: the cache key is injective over the option tuples: two queries whose
\* (keywords, location, jobType, datePosted, page) differ have different
\* keys, so that neither is answered from the other's cache entry.
C25_InjectiveKey ==
    (call.fn = "cacheKey" /\ ret # Pending) =>
        (ret.value[1] = ret.value[2] =>
            ScrapeOptionsOf(call.a) = ScrapeOptionsOf(call.b))

\* C26: once the 25 s timer has settled the race of a call and the call has
\* returned its fallback jobs, no step changes what the call returned, and
\* no step of its browser session (the page steps, the close that settles
\* scrapePromise) changes the cache.
C26_LateSessionInert ==
    [][\A p \in Requests :
          (TimedOut(p) /\ ViaFallback(p)) =>
              /\ result'[p] = result[p] /\ pc'[p] = pc[p]
              /\ error'[p] = error[p]
              /\ browser'[p] # browser[p] => jobCache' = jobCache]_vars
\* the session of a call that timed out has since fulfilled scrapePromise with
\* extracted jobs, and the entry of the call's key is the fallback it returned
C26_Witness ==
    \E p \in Requests :
        /\ TimedOut(p) /\ ViaFallback(p) /\ browser[p] = "closed"
        /\ scrapePromise[p].kind = "fulfilled"
        /\ Len(scrapePromise[p].value) > 0
        /\ Has(jobCache, Key(p))
        /\ jobCache[Key(p)].jobs = Value(p).jobs
        /\ Value(p).jobs # scrapePromise[p].value

\* every fetch of the page has settled
Quiescent == \A i \in DOMAIN fetches : fetches[i].response # Pending
\* the fetch made last, which is the one for the current search parameters
LatestFetch == fetches[Len(fetches)]

\* C27: once every fetch has settled, the jobs, totalCount and isFromCache of
\* JobResults are those of the body that answered the fetch for the current
\* search parameters, in whatever order the fetches settled.
C27_LatestWins ==
    (/\ Truthy(searchParams.keywords) /\ fetches # <<>> /\ Quiescent
     /\ LatestFetch.url = ApiUrl(searchParams)
     /\ LatestFetch.response.kind = "fulfilled"
     /\ LatestFetch.response.value.ok) =>
        LET data == LatestFetch.response.value.data
        IN  /\ jobResults.jobs = data.jobs
            /\ jobResults.totalCount = data.totalCount
            /\ jobResults.isFromCache = FieldOr(data, "isFromCache", FALSE)

\* C28: whenever JobResults shows a non-empty job list, after whatever
\* searches, responses and clicks on the previous, next and page buttons,
\* currentPage is between 1 and ceil(jobs.length / 10) and the slice shown
\* holds between 1 and 10 jobs.
C28_PageInRange ==
    (View = "results" /\ Len(jobResults.jobs) > 0) =>
        /\ 1 <= jobResults.currentPage
        /\ jobResults.currentPage <= Ceil(Len(jobResults.jobs), 10)
        /\ 1 <= Len(displayedJobs) /\ Len(displayedJobs) <= 10
\* after a second search the last page of a list of more than ten jobs is
\* shown, with fewer than ten jobs on it
C28_Witness ==
    /\ View = "results" /\ Len(fetches) >= 2 /\ Quiescent
    /\ Len(jobResults.jobs) > 10
    /\ jobResults.currentPage = 2
    /\ Len(displayedJobs) = Len(jobResults.jobs) - 10

====
